---- MODULE Spec2Model ----
(***************************************************************************)
(* Model of AdaptiveHeating (src/AdaptiveHeating.py): a heating-curve      *)
(* controller with two adaptive coefficients k1, k2 persisted in a JSON    *)
(* parameter file, and a fuel-pump frequency output smoothed by a 5-entry  *)
(* moving average and a 0.2 Hz hysteresis gate.                            *)
(*                                                                         *)
(* Numbers are exact fixed-point integers:                                 *)
(*   temperatures       whole degrees Celsius                              *)
(*   learning_rate      tenths                                             *)
(*   k1, k2             twentieths (0.1 * error / 2 is a twentieth)        *)
(*   power              twentieths of a watt (k1 * degrees + k2)           *)
(*   frequencies        1/6000 Hz: a hundredth of a Hz is CentiHz = 60     *)
(*                      units, so the mean of 1..5 two-decimal values is   *)
(*                      an integer                                         *)
(* Floating-point rounding error below these resolutions is not modelled.  *)
(***************************************************************************)
EXTENDS Integers, Sequences, FiniteSets, TLC

\* ------------------------------------------------------------------ units
KUnit == 20
CentiHz == 60

\* ------------------------------------------------- constructor arguments
target_temp == 22
learning_rate == 1

\* ------------------------------------------------------ fixed attributes
f_min == 8400
f_max == 33000
p_min == 22000
p_max == 86000
hysteresis == 1200
maxlen == 5
K1_MAX == 400
K2_MAX == 1000

\* ----------------------------------------------------------------- bounds
\* Number of calls (constructions included) in one run.
MaxCalls == 7

\* Inputs. Any value is accepted by the code (no validation).
\* Outdoor temperatures: one warmer than target (negative demand), and two
\* that put the demand between p_min and p_max, or above p_max.
ExtTemps == {40, -100, -250}
\* Indoor temperatures: errors 4 (the example of the usage code), 0 and -200.
IndoorTemps == {18, 22, 222}
\* Caller-supplied (initial_k1, initial_k2): the defaults 10, 30; and
\* values the constructor accepts although they lie outside [0,20] x [0,50].
Defaults == {<<10 * KUnit, 30 * KUnit>>, <<25 * KUnit, 55 * KUnit>>}

\* Contents of the parameter file: a JSON object is a function from a subset
\* of the keys to numbers.
EmptyData == [x \in {} |-> 0]
Absent == [kind |-> "absent", data |-> EmptyData]
Malformed == [kind |-> "malformed", data |-> EmptyData]
Record(d) == [kind |-> "record", data |-> d]
\* What may be found at param_file before the first construction: nothing,
\* text that is not JSON, or an object with some of the keys. The stored
\* values 19.8 and 49.9 are one update of error 4 below the upper limits.
StoredK1 == 20 * KUnit - 4
StoredK2 == 50 * KUnit - 2
StoreContents ==
    { Absent, Malformed,
      Record([x \in {"k1", "k2"} |-> IF x = "k1" THEN StoredK1 ELSE StoredK2]),
      Record([x \in {"k1"} |-> StoredK1]),
      Record([x \in {"k2"} |-> StoredK2]),
      Record(EmptyData) }

VARIABLES
    status,        \* "ok": a controller exists; "raised": __init__ raised
    k1, k2,        \* self.k1, self.k2
    freq_history,  \* self.freq_history, oldest first
    last_freq,     \* self.last_freq
    param_file,    \* contents of the file at self.param_file
    op,            \* the last call: its name and arguments
    ret,           \* its return value: <<>> is None, <<v>> is v
    saved,         \* an update_curve call has completed on this param_file
    n_active,      \* number of active heating_frequency calls on this object
    last_active,   \* the latest of them: its locals frequency and
                   \* avg_frequency and its return value; <<>> if none
    calls          \* number of calls so far

vars == <<status, k1, k2, freq_history, last_freq, param_file, op, ret, saved,
          n_active, last_active, calls>>

\* ---------------------------------------------------------------- helpers
Max(a, b) == IF a >= b THEN a ELSE b
Min(a, b) == IF a <= b THEN a ELSE b
Abs(a) == IF a >= 0 THEN a ELSE 0 - a

RECURSIVE Sum(_)
Sum(s) == IF s = <<>> THEN 0 ELSE Head(s) + Sum(Tail(s))

\* round(num / den, 2) in frequency units. An exact decimal tie goes to the
\* even hundredth; in the code the binary value of the double decides it.
Round2(num, den) ==
    LET step == CentiHz * den
        q == num \div step
        r == num % step
    IN  IF 2 * r < step THEN q * CentiHz
        ELSE IF 2 * r > step THEN (q + 1) * CentiHz
        ELSE IF q % 2 = 0 THEN q * CentiHz
        ELSE (q + 1) * CentiHz

\* dict.get(key, default) on the loaded JSON object.
Get(data, key, default) == IF key \in DOMAIN data THEN data[key] ELSE default

\* Fault: load_params looks k1 up under a key the file never holds.
LoadParams_WrongKey(file, default_k1, default_k2) ==
    IF file.kind = "record"
    THEN <<default_k1, IF "k2" \in DOMAIN file.data THEN file.data["k2"] ELSE default_k2>>
    ELSE <<default_k1, default_k2>>

\* load_params: the pair (k1, k2), or "raised" when json.load raises.
LoadRaises(file) == file.kind = "malformed"
LoadParams(file, default_k1, default_k2) ==
    IF file.kind = "record"
    THEN <<Get(file.data, "k1", default_k1), Get(file.data, "k2", default_k2)>>
    ELSE <<default_k1, default_k2>>

\* Fault: save_params writes k1 alone.
SaveParams_OnlyK1(a, b) == [kind |-> "record", data |-> [x \in {"k1"} |-> a]]

\* save_params: the file after json.dump({"k1": k1, "k2": k2}).
SaveParams(a, b) == Record([x \in {"k1", "k2"} |-> IF x = "k1" THEN a ELSE b])

\* ------------------------------------------------------------ construction
\* The state after AdaptiveHeating(initial_k1, initial_k2) on a given file.
InitState(file, initial_k1, initial_k2) ==
    /\ freq_history' = <<>>
    /\ last_freq' = f_min
    /\ param_file' = file
    /\ IF LoadRaises(file)
       THEN /\ status' = "raised"
            /\ k1' = 0
            /\ k2' = 0
       ELSE /\ status' = "ok"
            /\ k1' = LoadParams(file, initial_k1, initial_k2)[1]
            /\ k2' = LoadParams(file, initial_k1, initial_k2)[2]
    /\ op' = [name |-> "__init__", args |-> <<initial_k1, initial_k2>>]
    /\ ret' = <<>>
    /\ n_active' = 0
    /\ last_active' = <<>>

Init ==
    \E file \in StoreContents, d \in Defaults :
        /\ freq_history = <<>>
        /\ last_freq = f_min
        /\ param_file = file
        /\ status = IF LoadRaises(file) THEN "raised" ELSE "ok"
        /\ k1 = IF LoadRaises(file) THEN 0 ELSE LoadParams(file, d[1], d[2])[1]
        /\ k2 = IF LoadRaises(file) THEN 0 ELSE LoadParams(file, d[1], d[2])[2]
        /\ op = [name |-> "__init__", args |-> <<d[1], d[2]>>]
        /\ ret = <<>>
        /\ n_active = 0
        /\ last_active = <<>>
        /\ saved = FALSE
        /\ calls = 1

\* A new controller object on the same param_file (a restart).
Construct(initial_k1, initial_k2) ==
    /\ calls < MaxCalls
    /\ InitState(param_file, initial_k1, initial_k2)
    /\ calls' = calls + 1
    /\ UNCHANGED saved

\* ------------------------------------------------------------ update_curve
\* max(0, min(x, hi))
Clamp(x, hi) == Max(0, Min(x, hi))

\* self.k1 += self.learning_rate * error          (tenths -> twentieths)
AdjustK1(k, error) == k + 2 * learning_rate * error
\* self.k2 += self.learning_rate * (error / 2)
AdjustK2(k, error) == k + learning_rate * error

NewK1(k, temp_ext, temp_int) == Clamp(AdjustK1(k, target_temp - temp_int), K1_MAX)
NewK2(k, temp_ext, temp_int) == Clamp(AdjustK2(k, target_temp - temp_int), K2_MAX)

UpdateCurve(temp_ext, temp_int) ==
    /\ status = "ok"
    /\ calls < MaxCalls
    /\ k1' = NewK1(k1, temp_ext, temp_int)
    /\ k2' = NewK2(k2, temp_ext, temp_int)
    /\ param_file' = SaveParams(k1', k2')
    /\ saved' = TRUE
    /\ op' = [name |-> "update_curve", args |-> <<temp_ext, temp_int>>]
    /\ ret' = <<>>
    /\ calls' = calls + 1
    /\ UNCHANGED <<status, freq_history, last_freq, n_active, last_active>>

\* ------------------------------------------------------- heating_frequency
\* power = min(max(0, k1 * (target_temp - temp_ext) + k2), p_max)
Power(a, b, temp_ext) == Min(Max(0, a * (target_temp - temp_ext) + b), p_max)

\* frequency = f_min + ((power - p_min) / (p_max - p_min)) * (f_max - f_min),
\* as the fraction FreqNum(power) / FreqDen.
FreqDen == p_max - p_min
FreqNum(power) == f_min * FreqDen + (power - p_min) * (f_max - f_min)

\* Fault: the raw candidate without max(f_min, ...).
Frequency_NoLowerClamp(power) ==
    Round2(Min(FreqNum(power), f_max * FreqDen), FreqDen)

\* round(max(f_min, min(frequency, f_max)), 2): the raw candidate.
Frequency(power) ==
    Round2(Max(f_min * FreqDen, Min(FreqNum(power), f_max * FreqDen)), FreqDen)

\* Fault: a plain list instead of deque(maxlen=5).
DequeAppend_Unbounded(h, x) == Append(h, x)

\* deque(maxlen=5).append(x): the oldest entry is dropped when full.
DequeAppend(h, x) == IF Len(h) < maxlen THEN Append(h, x) ELSE Append(Tail(h), x)

\* sum(h) / len(h); exact, since the entries are multiples of CentiHz.
Mean(h) == Sum(h) \div Len(h)

\* Fault: no hysteresis, every average is accepted.
Gate_NoHysteresis(avg_frequency, last) == avg_frequency

\* Fault: the comparison of the gate reversed.
Gate_Inverted(avg_frequency, last) ==
    IF Abs(avg_frequency - last) < hysteresis THEN avg_frequency ELSE last

\* The hysteresis gate: the new self.last_freq.
Gate(avg_frequency, last) ==
    IF Abs(avg_frequency - last) >= hysteresis THEN avg_frequency ELSE last

\* Fault: heating_frequency tests heater_state only after the append, so a
\* warm-up call still feeds the history.
HeatingFrequency_AppendsInWarmup(temp_ext, heater_state) ==
    /\ status = "ok"
    /\ calls < MaxCalls
    /\ freq_history' = DequeAppend(freq_history, Frequency(Power(k1, k2, temp_ext)))
    /\ IF ~heater_state
       THEN /\ ret' = <<>>
            /\ UNCHANGED <<last_freq, n_active, last_active>>
       ELSE /\ last_freq' = Gate(Mean(freq_history'), last_freq)
            /\ ret' = <<Round2(last_freq', 1)>>
            /\ n_active' = n_active + 1
            /\ last_active' = <<[frequency |-> Frequency(Power(k1, k2, temp_ext)),
                                 avg_frequency |-> Mean(freq_history'),
                                 ret |-> Round2(last_freq', 1)]>>
    /\ op' = [name |-> "heating_frequency", args |-> <<temp_ext, heater_state>>]
    /\ calls' = calls + 1
    /\ UNCHANGED <<status, k1, k2, param_file, saved>>

HeatingFrequency(temp_ext, heater_state) ==
    /\ status = "ok"
    /\ calls < MaxCalls
    /\ IF ~heater_state
       THEN /\ ret' = <<>>
            /\ UNCHANGED <<freq_history, last_freq, n_active, last_active>>
       ELSE /\ freq_history' = DequeAppend(freq_history, Frequency(Power(k1, k2, temp_ext)))
            /\ last_freq' = Gate(Mean(freq_history'), last_freq)
            /\ ret' = <<Round2(last_freq', 1)>>
            /\ n_active' = n_active + 1
            /\ last_active' = <<[frequency |-> Frequency(Power(k1, k2, temp_ext)),
                                 avg_frequency |-> Mean(freq_history'),
                                 ret |-> Round2(last_freq', 1)]>>
    /\ op' = [name |-> "heating_frequency", args |-> <<temp_ext, heater_state>>]
    /\ calls' = calls + 1
    /\ UNCHANGED <<status, k1, k2, param_file, saved>>

Next ==
    \/ \E d \in Defaults : Construct(d[1], d[2])
    \/ \E temp_ext \in ExtTemps, temp_int \in IndoorTemps : UpdateCurve(temp_ext, temp_int)
    \/ \E temp_ext \in ExtTemps, heater_state \in BOOLEAN : HeatingFrequency(temp_ext, heater_state)

Spec == Init /\ [][Next]_vars

\* =================================================================== claims
\* The last call was heating_frequency with heater_state True / False.
ActiveCall(o) == o.name = "heating_frequency" /\ o.args[2]
InactiveCall(o) == o.name = "heating_frequency" /\ ~o.args[2]

InRange(x, lo, hi) == lo <= x /\ x <= hi

\* C1: in every state in which a controller exists, right after construction
\* included, 0 <= k1 <= 20 and 0 <= k2 <= 50.
C1_CoefficientsInRange ==
    status = "ok" => InRange(k1, 0, K1_MAX) /\ InRange(k2, 0, K2_MAX)

\* C2 as stated: when the moving average of an active call differs by less
\* than 0.2 Hz from the moving average of the previous active call, the call
\* returns what the previous active call returned.
C2_AverageMovedLittle ==
    [][ ( /\ ActiveCall(op')
          /\ last_active # <<>>
          /\ Abs(last_active'[1].avg_frequency - last_active[1].avg_frequency) < hysteresis )
        => last_active'[1].ret = last_active[1].ret ]_vars

\* C2 as amended: when the moving average of an active call differs by less
\* than 0.2 Hz from last_freq as the previous active call left it, the call
\* returns what the previous active call returned and leaves last_freq alone.
C2_GateHoldsOutput ==
    [][ ( /\ ActiveCall(op')
          /\ last_active # <<>>
          /\ Abs(last_active'[1].avg_frequency - last_freq) < hysteresis )
        => /\ ret' = <<last_active[1].ret>>
           /\ last_freq' = last_freq ]_vars

\* C2 witness: an active call, not the first, whose moving average the gate
\* did not accept although it differs from last_freq.
C2_Witness ==
    /\ ActiveCall(op)
    /\ n_active >= 2
    /\ last_active[1].avg_frequency # last_freq
    /\ Abs(last_active[1].avg_frequency - last_freq) < hysteresis

\* The history holds maxlen entries, all equal: the last five active calls
\* produced the same raw candidate.
FiveEqual(h) == Len(h) = maxlen /\ \A i \in 1..Len(h) : h[i] = h[1]

\* C3 as stated: an active call that leaves five equal raw candidates c in
\* the history returns c.
C3_ConvergesToCandidate ==
    (ActiveCall(op) /\ FiveEqual(freq_history)) => ret = <<freq_history[1]>>

\* C3 as amended: such a call returns c when c differs from the last_freq it
\* found by at least 0.2 Hz; otherwise it leaves last_freq alone and returns
\* it rounded.
C3_ConvergesUnlessGated ==
    [][ (ActiveCall(op') /\ FiveEqual(freq_history'))
        => IF Abs(freq_history'[1] - last_freq) >= hysteresis
           THEN ret' = <<freq_history'[1]>> /\ last_freq' = freq_history'[1]
           ELSE /\ last_freq' = last_freq
                /\ Len(ret') = 1
                /\ ret'[1] % CentiHz = 0
                /\ 2 * Abs(ret'[1] - last_freq) <= CentiHz ]_vars

\* C3 witness: five equal raw candidates c, and the call returned something
\* else than c.
C3_Witness ==
    /\ ActiveCall(op)
    /\ FiveEqual(freq_history)
    /\ ret # <<freq_history[1]>>

\* C4: a heating_frequency call with heater_state False returns None and
\* changes none of freq_history, last_freq, k1, k2 and the parameter file.
C4_InactiveCallChangesNothing ==
    [][ InactiveCall(op')
        => /\ ret' = <<>>
           /\ UNCHANGED <<freq_history, last_freq, k1, k2, param_file>> ]_vars

\* C4 witness: an inactive call on a controller that has a history and an
\* accepted frequency to lose.
C4_Witness ==
    /\ InactiveCall(op)
    /\ ret = <<>>
    /\ Len(freq_history) >= 2
    /\ last_freq # f_min

\* C5: an active call returns a value in [f_min, f_max]; last_freq and every
\* entry of freq_history are in [f_min, f_max] in every state.
C5_FrequencyInRange ==
    /\ ActiveCall(op) => Len(ret) = 1 /\ InRange(ret[1], f_min, f_max)
    /\ InRange(last_freq, f_min, f_max)
    /\ \A i \in 1..Len(freq_history) : InRange(freq_history[i], f_min, f_max)

\* C5 witness: an active call whose power demand is below p_min (also: zero)
\* on a controller that has seen f_max.
C5_Witness ==
    /\ ActiveCall(op)
    /\ Power(k1, k2, op.args[1]) = 0
    /\ \E i \in 1..Len(freq_history) : freq_history[i] = f_max
    /\ freq_history[Len(freq_history)] = f_min

\* C6: construction never fails on the parameter file; each coefficient is
\* the stored one when the file holds an object with its key, and the
\* caller-supplied default otherwise (file absent or malformed, key missing).
C6_ConstructionNeverFails ==
    op.name = "__init__"
    => /\ status = "ok"
       /\ k1 = IF "k1" \in DOMAIN param_file.data THEN param_file.data["k1"] ELSE op.args[1]
       /\ k2 = IF "k2" \in DOMAIN param_file.data THEN param_file.data["k2"] ELSE op.args[2]

\* C7: once an update_curve call has completed, a construction on the same
\* parameter file, whatever the defaults, yields the k1 and k2 the
\* controller had in memory, an empty freq_history and last_freq = f_min.
C7_RoundTrip ==
    [][ (saved /\ status = "ok" /\ op'.name = "__init__")
        => /\ status' = "ok"
           /\ k1' = k1 /\ k2' = k2
           /\ freq_history' = <<>>
           /\ last_freq' = f_min ]_vars

\* C7 witness: a controller constructed after an update, whose coefficients
\* are not the defaults it was given.
C7_Witness ==
    /\ saved
    /\ op.name = "__init__"
    /\ status = "ok"
    /\ k1 # op.args[1] /\ k2 # op.args[2]

C9_Moved(old, new, hi, unclamped, error) ==
    /\ (error < 0 /\ InRange(unclamped, 0, hi)) => new < old
    /\ (error > 0 /\ InRange(unclamped, 0, hi)) => new > old
    /\ (error # 0 /\ unclamped > hi) => new = hi
    /\ (error # 0 /\ unclamped < 0) => new = 0
    /\ error = 0 => new = old

\* C9: update_curve with indoor above target makes k1 and k2 strictly
\* smaller, with indoor below target strictly larger, except that a
\* coefficient whose unclamped value is out of range ends at the bound; with
\* indoor = target both are unchanged; temp_ext has no influence.
C9_UpdateDirection ==
    [][ op'.name = "update_curve"
        => LET error == target_temp - op'.args[2]
           IN  /\ C9_Moved(k1, k1', K1_MAX, k1 + 2 * learning_rate * error, error)
               /\ C9_Moved(k2, k2', K2_MAX, k2 + learning_rate * error, error) ]_vars

\* C10: an active call appends the raw candidate, the history then holds the
\* last min(n, 5) candidates in order; last_freq becomes their mean iff the
\* mean differs from the old last_freq by at least 0.2 Hz, and is otherwise
\* unchanged; the call returns last_freq rounded to 2 decimals.
C10_ActiveCall ==
    [][ ActiveCall(op')
        => LET h == freq_history
               g == freq_history'
               kept == Len(g) - 1
           IN  /\ n_active' = n_active + 1
               /\ Len(g) = Min(n_active', maxlen)
               /\ g[Len(g)] = Frequency(Power(k1, k2, op'.args[1]))
               /\ \A i \in 1..kept : g[i] = h[Len(h) - kept + i]
               /\ IF Abs(Sum(g) - Len(g) * last_freq) >= Len(g) * hysteresis
                  THEN Len(g) * last_freq' = Sum(g)
                  ELSE last_freq' = last_freq
               /\ Len(ret') = 1
               /\ ret'[1] % CentiHz = 0
               /\ 2 * Abs(ret'[1] - last_freq') <= CentiHz ]_vars

\* C10 witness: the sixth or a later active call, which evicted an entry,
\* left entries that differ, and whose mean the gate accepted.
C10_Witness ==
    /\ ActiveCall(op)
    /\ n_active > maxlen
    /\ freq_history[1] # freq_history[maxlen]
    /\ last_freq = last_active[1].avg_frequency
    /\ ret # <<last_freq>>
====
